---- MODULE Spec2Model ----
(***************************************************************************)
(* A model of the agentic retrieval engine sketched in                     *)
(* docs/AGENTIC-RAG.md: the knowledge-source registry, the retrieval       *)
(* dispatcher (retrieve), the agent reasoning loop (run_agent) and the     *)
(* multi-agent orchestrator (orchestrator, delegate_to_specialist).        *)
(*                                                                         *)
(* The language model is an external capability: each call draws its       *)
(* response from a bounded set of well-formed API responses.  A Python     *)
(* exception that leaves a function is modelled by the state "RAISED".     *)
(***************************************************************************)
EXTENDS Integers, Sequences, FiniteSets, Bags, TLC

\* ------------------------------------------------------------------ bounds
\* max_iterations is a parameter of run_agent: a run draws it from 0..MaxIterations.
MaxIterations == 3
\* Tool calls the model may request over one run.
MaxToolCalls == 2
\* Entries of a plan (sub_queries) the planning call may emit.
MaxPlan == 2
\* Tool calls the model may request over one delegated (specialist) run.
MaxDelegateToolCalls == 1
\* A delegated run draws its iteration budget from 1..MaxDelegateIterations.
MaxDelegateIterations == 1

None == "None"

Min(a, b) == IF a < b THEN a ELSE b

\* A Python call either returns a value or raises.
Ok(v) == [raised |-> FALSE, value |-> v]
Raise(e) == [raised |-> TRUE, value |-> e]

\* A message's content is a list of blocks; a plain string s is the one text block s.
TextBlock(s) == [type |-> "text", text |-> s]
Str(s) == <<TextBlock(s)>>

\* ---------------------------------------------------------------- registry
Range(seq) == {seq[j] : j \in DOMAIN seq}

\* list(KNOWLEDGE_SOURCES.keys())
SOURCE_KEYS == <<"pricing_db", "policy_db", "hr_db", "product_db", "web_search">>

KNOWLEDGE_SOURCES ==
    [name \in Range(SOURCE_KEYS) |->
        CASE name = "pricing_db" ->
                [collection |-> "pricing", freshness |-> "updated hourly"]
          [] name = "policy_db" ->
                [collection |-> "policies", freshness |-> "updated daily"]
          [] name = "hr_db" ->
                [collection |-> "org_and_hr", freshness |-> "updated on change"]
          [] name = "product_db" ->
                [collection |-> "product_docs", freshness |-> "updated per release"]
          [] name = "web_search" ->
                [collection |-> None, freshness |-> "real-time"]]

\* info["description"] of each entry (its first words).
DESCRIPTIONS ==
    [name \in Range(SOURCE_KEYS) |->
        CASE name = "pricing_db" -> "Current pricing plans"
          [] name = "policy_db" -> "Company policies"
          [] name = "hr_db" -> "Org chart"
          [] name = "product_db" -> "Product documentation"
          [] name = "web_search" -> "Live web search"]

\* KNOWLEDGE_SOURCES.items(): the registry's entries in insertion order.
InitialRegistry ==
    [j \in DOMAIN SOURCE_KEYS |->
        [name |-> SOURCE_KEYS[j],
         collection |-> KNOWLEDGE_SOURCES[SOURCE_KEYS[j]].collection,
         description |-> DESCRIPTIONS[SOURCE_KEYS[j]],
         freshness |-> KNOWLEDGE_SOURCES[SOURCE_KEYS[j]].freshness]]

\* register(source): the entry with the source's identifier is replaced in
\* place, a new identifier is added at the end.
register(reg, source) ==
    IF \E j \in DOMAIN reg : reg[j].name = source.name
    THEN [j \in DOMAIN reg |-> IF reg[j].name = source.name THEN source ELSE reg[j]]
    ELSE Append(reg, source)

\* describe_all that lists the sources with a vector store only.
describe_all_stores(reg) ==
    LET stores == SelectSeq(reg, LAMBDA info : info.collection # None) IN
    [j \in DOMAIN stores |->
        "- " \o stores[j].name \o ": " \o stores[j].description
             \o " (" \o stores[j].freshness \o ")"]

\* f"- {name}: {info['description']} ({info['freshness']})" for each item of the
\* registry.
describe_all(reg) ==
    [j \in DOMAIN reg |->
        "- " \o reg[j].name \o ": " \o reg[j].description
             \o " (" \o reg[j].freshness \o ")"]

\* The documents each chroma collection holds, best match first (the backends'
\* state at query time): one collection is empty, one holds more than n_results.
Documents ==
    [c \in {"pricing", "policies", "org_and_hr", "product_docs"} |->
        CASE c = "pricing" -> <<[doc |-> "Pro Plan $39/month", meta |-> "2026-01"]>>
          [] c = "policies" -> <<>>
          [] c = "org_and_hr" -> <<[doc |-> "org chart", meta |-> "v1"],
                                   [doc |-> "sales team", meta |-> "v2"],
                                   [doc |-> "directory", meta |-> "v3"],
                                   [doc |-> "hiring", meta |-> "v4"]>>
          [] c = "product_docs" -> <<[doc |-> "release notes", meta |-> "4.2"],
                                     [doc |-> "api docs", meta |-> "4.1"]>>]

\* The collections whose backend cannot be reached at query time.
Unavailable == {"product_docs"}

\* collection.query that returns every document it holds.
CollectionQuery_Uncapped(collection, query, n_results) ==
    IF collection \in Unavailable
    THEN Raise("BackendError")
    ELSE Ok(Documents[collection])

\* collection.query(query_texts=[query], n_results=n): the n best documents, or the
\* client's exception when the backend cannot be reached.
CollectionQuery(collection, query, n_results) ==
    IF collection \in Unavailable
    THEN Raise("BackendError")
    ELSE Ok(SubSeq(Documents[collection], 1, Min(n_results, Len(Documents[collection]))))

N_RESULTS == 3

\* -------------------------------------------------------------- dispatcher
search_collection(collection_name, query, n_results) ==
    IF collection_name \notin DOMAIN KNOWLEDGE_SOURCES
    THEN Raise("KeyError")
    ELSE LET source == KNOWLEDGE_SOURCES[collection_name] IN
         IF source.collection = None
         THEN Ok(<<>>)
         ELSE LET results == CollectionQuery(source.collection, query, n_results) IN
              IF results.raised
              THEN results
              ELSE LET hits == results.value IN
                   Ok([j \in 1..Len(hits) |->
                         [text |-> hits[j].doc,
                          source |-> collection_name,
                          freshness |-> source.freshness,
                          metadata |-> hits[j].meta]])

web_search(query) ==
    Ok(<<[text |-> "[Web result for '" \o query \o "'] ...",
          source |-> "web_search",
          freshness |-> "real-time",
          url |-> "https://example.com/..."]>>)

\* retrieve without its registry test: every identifier but web_search is looked up.
retrieve_unchecked(source, query) ==
    IF source = "web_search"
    THEN web_search(query)
    ELSE search_collection(source, query, N_RESULTS)

\* retrieve without its live-search branch: every registered identifier goes to
\* search_collection.
retrieve_stores_only(source, query) ==
    IF source \in DOMAIN KNOWLEDGE_SOURCES
    THEN search_collection(source, query, N_RESULTS)
    ELSE Ok(<<[text |-> "Unknown source: " \o source, source |-> "error"]>>)

retrieve(source, query) ==
    IF source = "web_search"
    THEN web_search(query)
    ELSE IF source \in DOMAIN KNOWLEDGE_SOURCES
         THEN search_collection(source, query, N_RESULTS)
         ELSE Ok(<<[text |-> "Unknown source: " \o source, source |-> "error"]>>)

\* ------------------------------------------------------------ tool catalog
SearchKnowledgeTool(source_enum) ==
    [name |-> "search_knowledge",
     properties |-> {"source", "query"},
     required |-> {"source", "query"},
     source_enum |-> source_enum]

\* TOOLS once the module is loaded: Step 3's two tools and Step 6's validate_answer.
TOOLS ==
    <<SearchKnowledgeTool(SOURCE_KEYS),
      [name |-> "evaluate_sufficiency",
       properties |-> {"have_enough", "missing", "confidence"},
       required |-> {"have_enough", "confidence"},
       source_enum |-> <<>>],
      [name |-> "validate_answer",
       properties |-> {"draft_answer", "potential_issues", "needs_more_search"},
       required |-> {"draft_answer", "potential_issues", "needs_more_search"},
       source_enum |-> <<>>]>>

NO_TOOLS == <<>>

SYSTEM_PROMPT == "You are an intelligent research agent."
FORCE_PROMPT == "Please provide your best answer now with the context you've gathered."

\* ------------------------------------------------------------- specialists
SPECIALIST_AGENTS ==
    [name \in {"pricing_specialist", "policy_specialist", "product_specialist"} |->
        CASE name = "pricing_specialist" ->
                [system_prompt |-> "You are a pricing specialist.",
                 sources |-> <<"pricing_db", "web_search">>]
          [] name = "policy_specialist" ->
                [system_prompt |-> "You are a policy specialist.",
                 sources |-> <<"policy_db">>]
          [] name = "product_specialist" ->
                [system_prompt |-> "You are a product specialist.",
                 sources |-> <<"product_db", "web_search">>]]

\* A delegate that offers its specialist the shared catalog as it is.
specialist_tools_shared(config) == TOOLS

\* The catalog delegate_to_specialist builds: every tool but search_knowledge, then
\* search_knowledge with its source enum replaced by the specialist's sources.
specialist_tools(config) ==
    SelectSeq(TOOLS, LAMBDA tool : tool.name # "search_knowledge")
    \o <<[TOOLS[1] EXCEPT !.source_enum = config.sources]>>

\* ------------------------------------------- what the model capability returns
\* Source identifiers the model may write into a search_knowledge call: registered
\* sources (one with a single document, one empty, one with more than n_results
\* documents, one whose backend cannot be reached, the live search) and one that
\* is not registered.
ModelSources ==
    {"pricing_db", "policy_db", "hr_db", "product_db", "web_search", "legal_db"}

Texts == {"a", "b"}

\* The arguments the model may send with a tool call: well formed, with a required
\* field missing, or with a field the schema does not declare.
ToolInputs(name) ==
    CASE name = "search_knowledge" ->
            {[source |-> s, query |-> "q"] : s \in ModelSources}
            \cup {[query |-> "q"],
                  [source |-> "pricing_db", query |-> "q", n_results |-> "10"]}
      [] name = "evaluate_sufficiency" ->
            {[have_enough |-> TRUE, confidence |-> "high"]}
      [] name = "validate_answer" ->
            {[draft_answer |-> "a", potential_issues |-> "none",
              needs_more_search |-> "yes"]}
      [] OTHER -> {[path |-> "/"]}

ToolNames == {"search_knowledge", "evaluate_sufficiency", "validate_answer", "delete_index"}

\* A tool call before the API gives it an id.
ToolCallShapes ==
    UNION {{[type |-> "tool_use", name |-> n, input |-> inp] : inp \in ToolInputs(n)}
           : n \in ToolNames}

IsToolUse(block) == block.type = "tool_use"

\* Content of a tool_use response: an optional text block, then 1..n tool calls.
ToolUseShapes(n) ==
    LET requests == UNION {[1..k -> ToolCallShapes] : k \in 1..n} IN
    requests \cup {<<TextBlock("a")>> \o c : c \in requests}

ToolUseCount(content) == Cardinality({j \in DOMAIN content : IsToolUse(content[j])})

\* The API numbers the tool calls of a conversation: ids are unique within a run.
WithIds(shapes, base) ==
    [j \in DOMAIN shapes |->
        IF IsToolUse(shapes[j])
        THEN [type |-> "tool_use", id |-> base + ToolUseCount(SubSeq(shapes, 1, j)),
              name |-> shapes[j].name, input |-> shapes[j].input]
        ELSE shapes[j]]

\* Content of a final free-text answer: text blocks only.
AnswerContents ==
    {<<>>, <<TextBlock("a")>>, <<TextBlock("a"), TextBlock("b")>>}

\* ------------------------------------------------------------------- state
\* useState(null): no question is selected.  Questions are held by their id.
null == 0

\* A TypeWriter that is not mounted: it has no state and no timer.
Unmounted == [mounted |-> FALSE, text |-> <<>>, displayed |-> <<>>, idx |-> 0,
              timer |-> FALSE]

VARIABLES
    pc,                \* PLANNING, EXECUTING_TOOLS, DONE, EXHAUSTED, RAISED or IDLE
    max_iterations,    \* run_agent's parameter
    i,                 \* the for loop's counter
    messages,          \* the conversation state
    retrieved_context, \* the evidence pool
    response,          \* the model's latest response
    blk,               \* position of the for loop over response.content
    tool_results,      \* the tool results of the current iteration
    result,            \* what the run returned
    system,            \* system framing of the run's model calls
    tools,             \* tool catalog offered at the run's decision calls
    calls,             \* model calls the run has made
    last_tools,        \* tool catalog offered at the latest model call
    ntool_calls,       \* tool calls the model has requested
    call_budget,       \* bound on ntool_calls for this run
    dispatch_log       \* the calls of retrieve, as an interceptor would see them

run_vars == <<pc, max_iterations, i, messages, retrieved_context, response, blk,
              tool_results, result, system, tools, calls, last_tools, ntool_calls,
              call_budget, dispatch_log>>

\* The orchestrator's own state.
VARIABLES
    orch_pc,             \* OFF (run_agent called directly), PLANNING, DELEGATING,
                         \* IN_DELEGATE, RETURNED or RAISED
    plan,                \* plan["sub_queries"]
    sq,                  \* position of the for loop over the plan
    specialist_answers,  \* the dict, as its items in insertion order
    delegate_log,        \* the calls of delegate_to_specialist
    synthesis_input,     \* the user turn of the synthesis call
    final_response,      \* what orchestrator returned
    orch_calls           \* the model calls orchestrator itself has made

orch_vars == <<orch_pc, plan, sq, specialist_answers, delegate_log, synthesis_input,
               final_response, orch_calls>>

VARIABLE
    registry             \* the knowledge-source registry, as its items in order

\* The state of the RAGDemo component (rag-demo.jsx), its timers and its TypeWriters.
VARIABLES
    view,               \* "intro", "pipeline" or "demo"
    selectedQ,          \* id of the selected question, or None
    showStale,
    showRAG,
    staleTyping,
    ragTyping,
    pipelineStep,
    showReveal,
    animatingPipeline,
    stale_timeouts,     \* pending setTimeout callbacks of handleAskQuestion
    intervals,          \* running setInterval timers of handleShowRAG, a bag of closures
    staleWriter,        \* the TypeWriter of the stale answer
    ragWriter           \* the TypeWriter of the RAG answer

demo_vars == <<selectedQ, showStale, showRAG, staleTyping, ragTyping, pipelineStep,
               showReveal, animatingPipeline>>

ui_vars == <<view, demo_vars, stale_timeouts, intervals, staleWriter, ragWriter>>

vars == <<run_vars, orch_vars, registry, ui_vars>>

NoResponse == [stop_reason |-> None, content |-> <<>>]

\* A run whose conversation starts with the answers of the runs before it.
StartRun_SharedConversation(question, n, sys, catalog, budget) ==
    /\ pc' = "PLANNING"
    /\ max_iterations' = n
    /\ i' = 0
    /\ messages' = [j \in DOMAIN specialist_answers |->
                        [role |-> "assistant",
                         content |-> Str(specialist_answers[j].answer)]]
                    \o <<[role |-> "user", content |-> Str(question)]>>
    /\ retrieved_context' = <<>>
    /\ response' = NoResponse
    /\ blk' = 0
    /\ tool_results' = <<>>
    /\ result' = None
    /\ system' = sys
    /\ tools' = catalog
    /\ calls' = 0
    /\ last_tools' = NO_TOOLS
    /\ ntool_calls' = 0
    /\ call_budget' = budget
    /\ dispatch_log' = <<>>

\* run_agent(user_question, max_iterations) up to its first model call.
StartRun(question, n, sys, catalog, budget) ==
    /\ pc' = "PLANNING"
    /\ max_iterations' = n
    /\ i' = 0
    /\ messages' = <<[role |-> "user", content |-> Str(question)]>>
    /\ retrieved_context' = <<>>
    /\ response' = NoResponse
    /\ blk' = 0
    /\ tool_results' = <<>>
    /\ result' = None
    /\ system' = sys
    /\ tools' = catalog
    /\ calls' = 0
    /\ last_tools' = NO_TOOLS
    /\ ntool_calls' = 0
    /\ call_budget' = budget
    /\ dispatch_log' = <<>>

\* RAGDemo as first rendered: the useState defaults, no timer, the intro view.
DemoInitial ==
    /\ view = "intro"
    /\ selectedQ = null
    /\ showStale = FALSE
    /\ showRAG = FALSE
    /\ staleTyping = FALSE
    /\ ragTyping = FALSE
    /\ pipelineStep = 0
    /\ showReveal = FALSE
    /\ animatingPipeline = FALSE
    /\ stale_timeouts = 0
    /\ intervals = EmptyBag
    /\ staleWriter = Unmounted
    /\ ragWriter = Unmounted

Init ==
    \E n \in 0..MaxIterations :
        /\ pc = "PLANNING"
        /\ max_iterations = n
        /\ i = 0
        /\ messages = <<[role |-> "user", content |-> Str("question")]>>
        /\ retrieved_context = <<>>
        /\ response = NoResponse
        /\ blk = 0
        /\ tool_results = <<>>
        /\ result = None
        /\ system = SYSTEM_PROMPT
        /\ tools = TOOLS
        /\ calls = 0
        /\ last_tools = NO_TOOLS
        /\ ntool_calls = 0
        /\ call_budget = MaxToolCalls
        /\ dispatch_log = <<>>
        /\ orch_pc = "OFF"
        /\ plan = <<>>
        /\ sq = 0
        /\ specialist_answers = <<>>
        /\ delegate_log = <<>>
        /\ synthesis_input = None
        /\ final_response = None
        /\ orch_calls = <<>>
        /\ registry = InitialRegistry
        /\ DemoInitial

\* --------------------------------------------------------- reasoning loop
\* final_text that keeps the first text block only.
final_text_first(content) ==
    LET texts == SelectSeq(content, LAMBDA block : block.type = "text") IN
    IF texts = <<>> THEN "" ELSE texts[1].text

RECURSIVE final_text(_)
final_text(content) ==
    IF content = <<>>
    THEN ""
    ELSE LET block == content[Len(content)]
             rest == final_text(SubSeq(content, 1, Len(content) - 1)) IN
         IF block.type = "text" THEN rest \o block.text ELSE rest

\* The loop bound off by one: range(max_iterations + 1).
LoopContinues_OffByOne == i <= max_iterations

\* for i in range(max_iterations)
LoopContinues == i < max_iterations

\* The decision call and its response.
ModelCall(r) ==
    /\ calls' = calls + 1
    /\ last_tools' = tools
    /\ response' = r

\* A final answer whose assistant turn is appended to the conversation.
FinalAnswer_Appending ==
    /\ pc = "PLANNING"
    /\ LoopContinues
    /\ \E c \in AnswerContents :
        /\ ModelCall([stop_reason |-> "end_turn", content |-> c])
        /\ result' = final_text(c)
        /\ messages' = Append(messages, [role |-> "assistant", content |-> c])
    /\ pc' = "DONE"
    /\ UNCHANGED <<max_iterations, i, retrieved_context, blk, tool_results,
                   system, tools, ntool_calls, call_budget, dispatch_log>>
    /\ UNCHANGED <<orch_vars, registry, ui_vars>>

\* stop_reason == "end_turn": the run returns the concatenated text.
FinalAnswer ==
    /\ pc = "PLANNING"
    /\ LoopContinues
    /\ \E c \in AnswerContents :
        /\ ModelCall([stop_reason |-> "end_turn", content |-> c])
        /\ result' = final_text(c)
    /\ pc' = "DONE"
    /\ UNCHANGED <<max_iterations, i, messages, retrieved_context, blk, tool_results,
                   system, tools, ntool_calls, call_budget, dispatch_log>>
    /\ UNCHANGED <<orch_vars, registry, ui_vars>>

\* stop_reason == "tool_use": the assistant turn is appended, the calls are processed.
ToolRequests ==
    /\ pc = "PLANNING"
    /\ LoopContinues
    /\ \E shapes \in ToolUseShapes(call_budget - ntool_calls) :
        LET c == WithIds(shapes, ntool_calls) IN
        /\ ModelCall([stop_reason |-> "tool_use", content |-> c])
        /\ messages' = Append(messages, [role |-> "assistant", content |-> c])
        /\ ntool_calls' = ntool_calls + ToolUseCount(c)
    /\ tool_results' = <<>>
    /\ blk' = 1
    /\ pc' = "EXECUTING_TOOLS"
    /\ UNCHANGED <<max_iterations, i, retrieved_context, result, system, tools,
                   call_budget, dispatch_log>>
    /\ UNCHANGED <<orch_vars, registry, ui_vars>>

\* Another stop_reason that does not use up an iteration of the loop.
OtherStop_Retry ==
    /\ pc = "PLANNING"
    /\ LoopContinues
    /\ ModelCall([stop_reason |-> "max_tokens", content |-> <<>>])
    /\ UNCHANGED <<pc, max_iterations, i, messages, retrieved_context, blk,
                   tool_results, result, system, tools, ntool_calls, call_budget,
                   dispatch_log>>
    /\ UNCHANGED <<orch_vars, registry, ui_vars>>

\* Any other stop_reason (max_tokens, ...): neither branch is taken.
OtherStop ==
    /\ pc = "PLANNING"
    /\ LoopContinues
    /\ ModelCall([stop_reason |-> "max_tokens", content |-> <<>>])
    /\ i' = i + 1
    /\ UNCHANGED <<pc, max_iterations, messages, retrieved_context, blk, tool_results,
                   result, system, tools, ntool_calls, call_budget, dispatch_log>>
    /\ UNCHANGED <<orch_vars, registry, ui_vars>>

CurrentBlock == response.content[blk]

InToolLoop == pc = "EXECUTING_TOOLS" /\ blk <= Len(response.content)

ToolResult(id, content) ==
    [type |-> "tool_result", tool_use_id |-> id, content |-> content]

\* sep.join(strings)
RECURSIVE Join(_, _)
Join(strings, sep) ==
    IF strings = <<>>
    THEN ""
    ELSE IF Len(strings) = 1
         THEN strings[1]
         ELSE strings[1] \o sep \o Join(Tail(strings), sep)

\* The f-string of one result: r['source'], r['freshness'] and r['text'] must exist.
format_result(r) ==
    IF {"source", "freshness", "text"} \subseteq DOMAIN r
    THEN Ok("[Source: " \o r.source \o " | Freshness: " \o r.freshness \o "]\n" \o r.text)
    ELSE Raise("KeyError")

\* result_text without the substitute for an empty list of results.
format_results_joined(results) ==
    IF \E j \in DOMAIN results : format_result(results[j]).raised
    THEN Raise("KeyError")
    ELSE Ok(Join([j \in DOMAIN results |-> format_result(results[j]).value], "\n\n"))

\* result_text of a search_knowledge call
format_results(results) ==
    IF \E j \in DOMAIN results : format_result(results[j]).raised
    THEN Raise("KeyError")
    ELSE IF results = <<>>
         THEN Ok("No results found for this query.")
         ELSE Ok(Join([j \in DOMAIN results |-> format_result(results[j]).value], "\n\n"))

\* json.dumps({"acknowledged": True, "context_chunks_so_far": n})
acknowledgement(n) ==
    "{\"acknowledged\": true, \"context_chunks_so_far\": " \o ToString(n) \o "}"

\* if block.type != "tool_use": continue
SkipBlock ==
    /\ InToolLoop
    /\ ~IsToolUse(CurrentBlock)
    /\ blk' = blk + 1
    /\ UNCHANGED <<pc, max_iterations, i, messages, retrieved_context, response,
                   tool_results, result, system, tools, calls, last_tools, ntool_calls,
                   call_budget, dispatch_log>>
    /\ UNCHANGED <<orch_vars, registry, ui_vars>>

\* An evidence pool that keeps one copy of each result.
extend_deduplicated(list, items) ==
    list \o SelectSeq(items, LAMBDA r : r \notin Range(list))

\* list.extend(items)
extend(list, items) == list \o items

\* tool_input["source"], tool_input["query"]
SearchArguments(tool_input) ==
    IF {"source", "query"} \subseteq DOMAIN tool_input
    THEN Ok([source |-> tool_input.source, query |-> tool_input.query])
    ELSE Raise("KeyError")

\* if tool_name == "search_knowledge"
SearchKnowledge ==
    /\ InToolLoop
    /\ IsToolUse(CurrentBlock)
    /\ CurrentBlock.name = "search_knowledge"
    /\ LET args == SearchArguments(CurrentBlock.input) IN
       IF args.raised
       THEN /\ pc' = "RAISED"
            /\ UNCHANGED <<retrieved_context, tool_results, blk, dispatch_log>>
       ELSE LET got == retrieve(args.value.source, args.value.query)
                entry == [id |-> CurrentBlock.id, source |-> args.value.source,
                          query |-> args.value.query, returned |-> got] IN
            /\ dispatch_log' = Append(dispatch_log, entry)
            /\ IF got.raised
               THEN /\ pc' = "RAISED"
                    /\ UNCHANGED <<retrieved_context, tool_results, blk>>
               ELSE LET result_text == format_results(got.value) IN
                    /\ retrieved_context' = extend(retrieved_context, got.value)
                    /\ IF result_text.raised
                       THEN /\ pc' = "RAISED"
                            /\ UNCHANGED <<tool_results, blk>>
                       ELSE /\ tool_results' =
                                   Append(tool_results,
                                          ToolResult(CurrentBlock.id, result_text.value))
                            /\ blk' = blk + 1
                            /\ pc' = pc
    /\ UNCHANGED <<max_iterations, i, messages, response, result, system, tools,
                   calls, last_tools, ntool_calls, call_budget>>
    /\ UNCHANGED <<orch_vars, registry, ui_vars>>

\* elif tool_name == "evaluate_sufficiency"
EvaluateSufficiency ==
    /\ InToolLoop
    /\ IsToolUse(CurrentBlock)
    /\ CurrentBlock.name = "evaluate_sufficiency"
    /\ tool_results' =
           Append(tool_results,
                  ToolResult(CurrentBlock.id, acknowledgement(Len(retrieved_context))))
    /\ blk' = blk + 1
    /\ UNCHANGED <<pc, max_iterations, i, messages, retrieved_context, response,
                   result, system, tools, calls, last_tools, ntool_calls, call_budget,
                   dispatch_log>>
    /\ UNCHANGED <<orch_vars, registry, ui_vars>>

\* The tool results an if/elif chain without an else appends for any other name.
OtherToolResults(block) == <<>>

\* Any other tool name: no branch of the if/elif chain is taken.
OtherTool ==
    /\ InToolLoop
    /\ IsToolUse(CurrentBlock)
    /\ CurrentBlock.name \notin {"search_knowledge", "evaluate_sufficiency"}
    /\ tool_results' = tool_results \o OtherToolResults(CurrentBlock)
    /\ blk' = blk + 1
    /\ UNCHANGED <<pc, max_iterations, i, messages, retrieved_context, response,
                   result, system, tools, calls, last_tools, ntool_calls, call_budget,
                   dispatch_log>>
    /\ UNCHANGED <<orch_vars, registry, ui_vars>>

\* The tool results fed back as one user turn per result.
AppendToolResults_PerResult ==
    /\ pc = "EXECUTING_TOOLS"
    /\ blk > Len(response.content)
    /\ messages' = messages \o [j \in DOMAIN tool_results |->
                                  [role |-> "user", content |-> <<tool_results[j]>>]]
    /\ i' = i + 1
    /\ pc' = "PLANNING"
    /\ UNCHANGED <<max_iterations, retrieved_context, response, blk, tool_results,
                   result, system, tools, calls, last_tools, ntool_calls, call_budget,
                   dispatch_log>>
    /\ UNCHANGED <<orch_vars, registry, ui_vars>>

\* messages.append({"role": "user", "content": tool_results}); next iteration
AppendToolResults ==
    /\ pc = "EXECUTING_TOOLS"
    /\ blk > Len(response.content)
    /\ messages' = Append(messages, [role |-> "user", content |-> tool_results])
    /\ i' = i + 1
    /\ pc' = "PLANNING"
    /\ UNCHANGED <<max_iterations, retrieved_context, response, blk, tool_results,
                   result, system, tools, calls, last_tools, ntool_calls, call_budget,
                   dispatch_log>>
    /\ UNCHANGED <<orch_vars, registry, ui_vars>>

\* The forced call that passes tools=TOOLS like the decision calls.
ForcedCallTools_Offered == TOOLS

\* The tools argument of the forced call: it has none.
ForcedCallTools == NO_TOOLS

\* The loop ran out: one more call, without tools; response.content[0].text returns.
ForceFinalAnswer ==
    /\ pc = "PLANNING"
    /\ ~LoopContinues
    /\ messages' = Append(messages, [role |-> "user", content |-> Str(FORCE_PROMPT)])
    /\ \E t \in Texts :
        /\ response' = [stop_reason |-> "end_turn", content |-> Str(t)]
        /\ result' = response'.content[1].text
    /\ calls' = calls + 1
    /\ last_tools' = ForcedCallTools
    /\ pc' = "EXHAUSTED"
    /\ UNCHANGED <<max_iterations, i, retrieved_context, blk, tool_results, system,
                   tools, ntool_calls, call_budget, dispatch_log>>
    /\ UNCHANGED <<orch_vars, registry, ui_vars>>

RunStep ==
    \/ FinalAnswer
    \/ ToolRequests
    \/ OtherStop
    \/ SkipBlock
    \/ SearchKnowledge
    \/ EvaluateSufficiency
    \/ OtherTool
    \/ AppendToolResults
    \/ ForceFinalAnswer

Next == RunStep

Spec == Init /\ [][Next]_vars

\* ------------------------------------------------------------ orchestrator
\* No run_agent loop is active: its locals do not exist.
NoRun ==
    /\ pc' = "IDLE"
    /\ max_iterations' = 0
    /\ i' = 0
    /\ messages' = <<>>
    /\ retrieved_context' = <<>>
    /\ response' = NoResponse
    /\ blk' = 0
    /\ tool_results' = <<>>
    /\ result' = None
    /\ system' = None
    /\ tools' = NO_TOOLS
    /\ calls' = 0
    /\ last_tools' = NO_TOOLS
    /\ ntool_calls' = 0
    /\ call_budget' = 0
    /\ dispatch_log' = <<>>

OrchInit ==
    /\ pc = "IDLE"
    /\ max_iterations = 0
    /\ i = 0
    /\ messages = <<>>
    /\ retrieved_context = <<>>
    /\ response = NoResponse
    /\ blk = 0
    /\ tool_results = <<>>
    /\ result = None
    /\ system = None
    /\ tools = NO_TOOLS
    /\ calls = 0
    /\ last_tools = NO_TOOLS
    /\ ntool_calls = 0
    /\ call_budget = 0
    /\ dispatch_log = <<>>
    /\ orch_pc = "PLANNING"
    /\ plan = <<>>
    /\ sq = 0
    /\ specialist_answers = <<>>
    /\ delegate_log = <<>>
    /\ synthesis_input = None
    /\ final_response = None
    /\ orch_calls = <<>>
    /\ registry = InitialRegistry
    /\ DemoInitial

\* Specialist identifiers the planning call may name: two of those the system
\* prompt lists and one that is not in SPECIALIST_AGENTS.
PlanSpecialists == {"pricing_specialist", "policy_specialist", "legal_specialist"}

SubQuestion(j) == "sub-question " \o ToString(j)

\* json.loads(planning_response.content[0].text)["sub_queries"]
Plans ==
    UNION {{[j \in 1..k |-> [specialist |-> names[j], question |-> SubQuestion(j)]] :
                names \in [1..k -> PlanSpecialists]} : k \in 0..MaxPlan}

\* d[key] = value on an insertion-ordered dict.
DictSet(d, key, value) ==
    IF \E j \in DOMAIN d : d[j].name = key
    THEN [j \in DOMAIN d |-> IF d[j].name = key THEN [name |-> key, answer |-> value]
                                                  ELSE d[j]]
    ELSE Append(d, [name |-> key, answer |-> value])

\* client.messages.create(...) in orchestrator: no tools argument is passed.
OrchestratorCall(kind) == [kind |-> kind, tools |-> NO_TOOLS]

\* The planning call and json.loads of its text.
PlanCall ==
    /\ orch_pc = "PLANNING"
    /\ plan' \in Plans
    /\ sq' = 1
    /\ specialist_answers' = <<>>
    /\ orch_calls' = Append(orch_calls, OrchestratorCall("planning"))
    /\ orch_pc' = "DELEGATING"
    /\ UNCHANGED <<delegate_log, synthesis_input, final_response>>
    /\ UNCHANGED <<run_vars, registry, ui_vars>>

\* config = SPECIALIST_AGENTS[specialist]
SpecialistConfig(specialist) ==
    IF specialist \in DOMAIN SPECIALIST_AGENTS
    THEN Ok(SPECIALIST_AGENTS[specialist])
    ELSE Raise("KeyError")

\* The sub-queries orchestrator hands to delegate_to_specialist.
Delegated(p) == p

\* for sq in plan["sub_queries"]: delegate_to_specialist(sq["specialist"], sq["question"])
DelegateCall ==
    /\ orch_pc = "DELEGATING"
    /\ sq <= Len(Delegated(plan))
    /\ LET entry == Delegated(plan)[sq]
           config == SpecialistConfig(entry.specialist) IN
       /\ delegate_log' = Append(delegate_log, entry)
       /\ IF config.raised
          THEN /\ orch_pc' = "RAISED"
               /\ UNCHANGED run_vars
          ELSE /\ orch_pc' = "IN_DELEGATE"
               /\ \E n \in 1..MaxDelegateIterations :
                     StartRun(entry.question, n, config.value.system_prompt,
                              specialist_tools(config.value), MaxDelegateToolCalls)
    /\ UNCHANGED <<plan, sq, specialist_answers, synthesis_input, final_response,
                   orch_calls, registry, ui_vars>>

\* The specialist's loop ended: specialist_answers[sq["specialist"]] = its answer.
DelegateReturn ==
    /\ orch_pc = "IN_DELEGATE"
    /\ pc \in {"DONE", "EXHAUSTED"}
    /\ specialist_answers' = DictSet(specialist_answers, plan[sq].specialist, result)
    /\ sq' = sq + 1
    /\ orch_pc' = "DELEGATING"
    /\ NoRun
    /\ UNCHANGED <<plan, delegate_log, synthesis_input, final_response, orch_calls,
                   registry, ui_vars>>

\* An exception in the specialist's loop leaves delegate_to_specialist and orchestrator.
DelegateRaise ==
    /\ orch_pc = "IN_DELEGATE"
    /\ pc = "RAISED"
    /\ orch_pc' = "RAISED"
    /\ NoRun
    /\ UNCHANGED <<plan, sq, specialist_answers, delegate_log, synthesis_input,
                   final_response, orch_calls, registry, ui_vars>>

\* "Original question: ..." and one "[name]: answer" per item of the dict.
SynthesisContent(question, answers) ==
    <<"Original question: " \o question>>
    \o [j \in DOMAIN answers |-> "[" \o answers[j].name \o "]: " \o answers[j].answer]

\* The loop over the plan left while its last entry is still to be delegated.
PlanExhausted_Early == sq >= Len(Delegated(plan))

\* The for loop over plan["sub_queries"] has run its last iteration.
PlanExhausted == sq > Len(Delegated(plan))

\* The synthesis call, after the for loop; its text is returned.
Synthesize ==
    /\ orch_pc = "DELEGATING"
    /\ PlanExhausted
    /\ synthesis_input' = SynthesisContent("question", specialist_answers)
    /\ final_response' \in Texts
    /\ orch_calls' = Append(orch_calls, OrchestratorCall("synthesis"))
    /\ orch_pc' = "RETURNED"
    /\ UNCHANGED <<plan, sq, specialist_answers, delegate_log>>
    /\ UNCHANGED <<run_vars, registry, ui_vars>>

OrchNext ==
    \/ PlanCall
    \/ DelegateCall
    \/ FinalAnswer
    \/ ToolRequests
    \/ OtherStop
    \/ SkipBlock
    \/ SearchKnowledge
    \/ EvaluateSufficiency
    \/ OtherTool
    \/ AppendToolResults
    \/ ForceFinalAnswer
    \/ DelegateReturn
    \/ DelegateRaise
    \/ Synthesize

OrchSpec == OrchInit /\ [][OrchNext]_vars

\* ------------------------------------------------------- registry updates
\* The sources a caller may register: identifiers that are registered at start-up
\* (a vector store and the live search) and one that is not, with either kind of
\* backend handle and either of two freshness labels.
RegisterInputs ==
    [name : {"pricing_db", "web_search", "legal_db"},
     collection : {None, "legal"},
     description : {"Contracts"},
     freshness : {"real-time", "updated daily"}]

RegistryInit ==
    /\ pc = "IDLE"
    /\ max_iterations = 0
    /\ i = 0
    /\ messages = <<>>
    /\ retrieved_context = <<>>
    /\ response = NoResponse
    /\ blk = 0
    /\ tool_results = <<>>
    /\ result = None
    /\ system = None
    /\ tools = NO_TOOLS
    /\ calls = 0
    /\ last_tools = NO_TOOLS
    /\ ntool_calls = 0
    /\ call_budget = 0
    /\ dispatch_log = <<>>
    /\ orch_pc = "OFF"
    /\ plan = <<>>
    /\ sq = 0
    /\ specialist_answers = <<>>
    /\ delegate_log = <<>>
    /\ synthesis_input = None
    /\ final_response = None
    /\ orch_calls = <<>>
    /\ registry = InitialRegistry
    /\ DemoInitial

\* register(source)
Register(source) ==
    /\ registry' = register(registry, source)
    /\ UNCHANGED <<run_vars, orch_vars, ui_vars>>

RegistryNext == \E source \in RegisterInputs : Register(source)

RegistrySpec == RegistryInit /\ [][RegistryNext]_vars

\* ------------------------------------------------------------ the RAG demo
\* Bounds of the exploration: callbacks of handleAskQuestion's setTimeout that
\* may be pending at once, handleShowRAG intervals that may run at once, the
\* questions the user clicks, and the characters kept of every answer text.
MaxPendingTimeouts == 2

MaxIntervals == 2

MaxQuestions == 2

TextLen == 2

\* The pipeline has five steps: the animation counts `step <= 5`.
StepsRemain_OneMore(step) == step <= 6

StepsRemain(step) == step <= 5

\* RAG_PIPELINE_STEPS: the five steps, by id and title.
RAG_PIPELINE_STEPS ==
    << [id |-> 1, title |-> "User Query"],
       [id |-> 2, title |-> "Embed & Search"],
       [id |-> 3, title |-> "Retrieve Context"],
       [id |-> 4, title |-> "Augment Prompt"],
       [id |-> 5, title |-> "Generate Answer"] >>

\* An answer text, cut to its first TextLen characters.  A character is written
\* as the answer it belongs to and its position there, so that the texts of
\* different answers stay different after the cut, as they are in QUESTIONS.
Abbreviated(kind, id) == [n \in 1..TextLen |-> [answer |-> <<kind, id>>, at |-> n]]

\* QUESTIONS: four questions, each with a stale answer and a RAG answer.
QUESTIONS ==
    [id \in 1..4 |-> [id |-> id,
                      staleAnswer |-> [text |-> Abbreviated("stale", id)],
                      ragAnswer |-> [text |-> Abbreviated("rag", id)]]]

\* The questions the user clicks.
QuestionIds == 1..MaxQuestions

\* The buttons of each view that change the view.
ViewButtons ==
    [intro |-> {"demo", "pipeline"}, pipeline |-> {"intro", "demo"}, demo |-> {"intro"}]

\* TypeWriter's effect, run on mount and again when `text` changes: the cleanup
\* clears the old timer, then displayed is "", idx is 0 and a new timer runs.
\* A TypeWriter that stays mounted with the same text keeps its state.
TypeWriter(w, text) ==
    IF w.mounted /\ w.text = text
    THEN w
    ELSE [mounted |-> TRUE, text |-> text, displayed |-> <<>>, idx |-> 0, timer |-> TRUE]

\* text.slice(0, n)
slice(text, n) == SubSeq(text, 1, Min(n, Len(text)))

\* The callback of TypeWriter's setInterval, its own state: one more character
\* while idx < text.length, else the timer is cleared (and onComplete called).
TypeWriterTick_Early(w) ==
    IF w.idx + 1 < Len(w.text)
    THEN [w EXCEPT !.displayed = slice(w.text, w.idx + 1), !.idx = w.idx + 1]
    ELSE [w EXCEPT !.timer = FALSE]

TypeWriterTick(w) ==
    IF w.idx < Len(w.text)
    THEN [w EXCEPT !.displayed = slice(w.text, w.idx + 1), !.idx = w.idx + 1]
    ELSE [w EXCEPT !.timer = FALSE]

\* The render that follows every state update: in the demo view with a question
\* selected, the stale answer's TypeWriter is mounted while showStale and
\* staleTyping hold, the RAG answer's while showRAG and ragTyping hold; a
\* TypeWriter that is no longer rendered is unmounted, which clears its timer.
\* sw and rw are the two TypeWriters as the step itself left them.
Render(sw, rw) ==
    /\ staleWriter' =
          IF view' = "demo" /\ selectedQ' # null /\ showStale' /\ staleTyping'
          THEN TypeWriter(sw, QUESTIONS[selectedQ'].staleAnswer.text)
          ELSE Unmounted
    /\ ragWriter' =
          IF view' = "demo" /\ selectedQ' # null /\ showRAG' /\ ragTyping'
          THEN TypeWriter(rw, QUESTIONS[selectedQ'].ragAnswer.text)
          ELSE Unmounted

rag_vars == <<run_vars, orch_vars, registry>>

\* The buttons that change the view: setView(v).
SetView(v) ==
    /\ v \in ViewButtons[view]
    /\ view' = v
    /\ UNCHANGED <<demo_vars, stale_timeouts, intervals>>
    /\ Render(staleWriter, ragWriter)
    /\ UNCHANGED rag_vars

\* handleAskQuestion as if the stale answer were shown by the click itself.
handleAskQuestion_Immediate(q) ==
    /\ view = "demo"
    /\ stale_timeouts < MaxPendingTimeouts
    /\ selectedQ' = q
    /\ showStale' = TRUE
    /\ showRAG' = FALSE
    /\ staleTyping' = TRUE
    /\ ragTyping' = FALSE
    /\ pipelineStep' = 0
    /\ showReveal' = FALSE
    /\ animatingPipeline' = FALSE
    /\ stale_timeouts' = stale_timeouts + 1
    /\ UNCHANGED <<view, intervals>>
    /\ Render(staleWriter, ragWriter)
    /\ UNCHANGED rag_vars

\* handleAskQuestion(q): a click on a question of the demo view.  The state is
\* reset and a timeout is started; no running timer is cleared.
handleAskQuestion(q) ==
    /\ view = "demo"
    /\ stale_timeouts < MaxPendingTimeouts
    /\ selectedQ' = q
    /\ showStale' = FALSE
    /\ showRAG' = FALSE
    /\ staleTyping' = FALSE
    /\ ragTyping' = FALSE
    /\ pipelineStep' = 0
    /\ showReveal' = FALSE
    /\ animatingPipeline' = FALSE
    /\ stale_timeouts' = stale_timeouts + 1
    /\ UNCHANGED <<view, intervals>>
    /\ Render(staleWriter, ragWriter)
    /\ UNCHANGED rag_vars

\* The callback of handleAskQuestion's setTimeout.
StaleTimeout ==
    /\ stale_timeouts > 0
    /\ stale_timeouts' = stale_timeouts - 1
    /\ showStale' = TRUE
    /\ staleTyping' = TRUE
    /\ UNCHANGED <<view, selectedQ, showRAG, ragTyping, pipelineStep, showReveal,
                   animatingPipeline, intervals>>
    /\ Render(staleWriter, ragWriter)
    /\ UNCHANGED rag_vars

\* The button "Now ask with RAG enabled" is rendered in the stale answer's
\* block once the stale answer is typed, until the animation or the answer shows.
RAGButtonShown ==
    /\ view = "demo"
    /\ selectedQ # null
    /\ showStale
    /\ ~staleTyping /\ ~showRAG /\ ~animatingPipeline

\* handleShowRAG: a click on that button.  The interval's closure holds `step`;
\* `q` records the question selected at the click and is read by no code.
handleShowRAG ==
    /\ RAGButtonShown
    /\ BagCardinality(intervals) < MaxIntervals
    /\ animatingPipeline' = TRUE
    /\ pipelineStep' = 1
    /\ intervals' = intervals (+) SetToBag({[step |-> 1, q |-> selectedQ]})
    /\ UNCHANGED <<view, selectedQ, showStale, showRAG, staleTyping, ragTyping,
                   showReveal, stale_timeouts>>
    /\ Render(staleWriter, ragWriter)
    /\ UNCHANGED rag_vars

\* clearInterval(interval): the interval with closure t runs no more.
clearInterval(running, t) == running (-) SetToBag({t})

\* The interval's last callback as if it left animatingPipeline set.
IntervalEnd_StillAnimating(t) ==
    /\ intervals' = clearInterval(intervals, t)
    /\ showRAG' = TRUE
    /\ ragTyping' = TRUE
    /\ UNCHANGED <<pipelineStep, animatingPipeline>>

\* The interval's last callback as if it only stopped the animation.
IntervalEnd_NoAnswer(t) ==
    /\ intervals' = clearInterval(intervals, t)
    /\ animatingPipeline' = FALSE
    /\ UNCHANGED <<pipelineStep, showRAG, ragTyping>>

\* The interval's last callback: the interval clears itself and the RAG answer
\* is shown.
IntervalEnd(t) ==
    /\ intervals' = clearInterval(intervals, t)
    /\ animatingPipeline' = FALSE
    /\ showRAG' = TRUE
    /\ ragTyping' = TRUE
    /\ UNCHANGED pipelineStep

\* One callback of a running interval of handleShowRAG, the one with closure t.
IntervalTick(t) ==
    /\ BagIn(t, intervals)
    /\ LET step == t.step + 1
       IN  IF StepsRemain(step)
           THEN /\ pipelineStep' = step
                /\ intervals' = clearInterval(intervals, t) (+) SetToBag({[t EXCEPT !.step = step]})
                /\ UNCHANGED <<showRAG, ragTyping, animatingPipeline>>
           ELSE IntervalEnd(t)
    /\ UNCHANGED <<view, selectedQ, showStale, staleTyping, showReveal, stale_timeouts>>
    /\ Render(staleWriter, ragWriter)
    /\ UNCHANGED rag_vars

\* The reveal button as if it were rendered whatever the state.
RevealButtonShown_Always == view = "demo"

\* The button "What actually changed?" is rendered in the RAG answer's block
\* once the RAG answer is typed.
RevealButtonShown ==
    /\ view = "demo"
    /\ selectedQ # null
    /\ showRAG
    /\ ~ragTyping /\ ~showReveal

\* A click on that button: setShowReveal(true).
RevealClick ==
    /\ RevealButtonShown
    /\ showReveal' = TRUE
    /\ UNCHANGED <<view, selectedQ, showStale, showRAG, staleTyping, ragTyping,
                   pipelineStep, animatingPipeline, stale_timeouts, intervals>>
    /\ Render(staleWriter, ragWriter)
    /\ UNCHANGED rag_vars

\* A click on a step of the pipeline view: onStepClick(step.id), which is
\* setPipelineStep.  The demo view's animation passes an empty onStepClick.
StepClick(id) ==
    /\ view = "pipeline"
    /\ pipelineStep' = id
    /\ UNCHANGED <<view, selectedQ, showStale, showRAG, staleTyping, ragTyping,
                   showReveal, animatingPipeline, stale_timeouts, intervals>>
    /\ Render(staleWriter, ragWriter)
    /\ UNCHANGED rag_vars

\* One callback of the stale answer's TypeWriter; its onComplete is
\* setStaleTyping(false).
StaleWriterTick ==
    /\ staleWriter.mounted /\ staleWriter.timer
    /\ LET w == TypeWriterTick(staleWriter)
       IN  /\ staleTyping' = (staleTyping /\ w.timer)
           /\ UNCHANGED <<view, selectedQ, showStale, showRAG, ragTyping, pipelineStep,
                          showReveal, animatingPipeline, stale_timeouts, intervals>>
           /\ Render(w, ragWriter)
    /\ UNCHANGED rag_vars

\* One callback of the RAG answer's TypeWriter; its onComplete is
\* setRagTyping(false).
RagWriterTick ==
    /\ ragWriter.mounted /\ ragWriter.timer
    /\ LET w == TypeWriterTick(ragWriter)
       IN  /\ ragTyping' = (ragTyping /\ w.timer)
           /\ UNCHANGED <<view, selectedQ, showStale, showRAG, staleTyping, pipelineStep,
                          showReveal, animatingPipeline, stale_timeouts, intervals>>
           /\ Render(staleWriter, w)
    /\ UNCHANGED rag_vars

\* What the closure of an interval can hold.
Closures == [step : 1..5, q : QuestionIds]

UINext ==
    \/ \E v \in {"intro", "pipeline", "demo"} : SetView(v)
    \/ \E q \in QuestionIds : handleAskQuestion(q)
    \/ StaleTimeout
    \/ handleShowRAG
    \/ \E t \in Closures : IntervalTick(t)
    \/ RevealClick
    \/ \E id \in {step.id : step \in Range(RAG_PIPELINE_STEPS)} : StepClick(id)
    \/ StaleWriterTick
    \/ RagWriterTick

UISpec == RegistryInit /\ [][UINext]_vars

\* The timers of the browser keep firing: a running interval of handleShowRAG
\* is called back again and again until it clears itself.
UIFairSpec == UISpec /\ WF_vars(\E t \in Closures : IntervalTick(t))

\* ================================================================ properties
Terminal == {"DONE", "EXHAUSTED", "RAISED"}

Registered(source) == source \in DOMAIN KNOWLEDGE_SOURCES

AssistantTurns == {k \in DOMAIN messages : messages[k].role = "assistant"}

\* The tool calls of a content list, in order.
ToolUses(content) == SelectSeq(content, IsToolUse)

\* Every tool call the model has requested in this run.
RequestedCalls ==
    UNION {Range(ToolUses(messages[k].content)) : k \in AssistantTurns}

ToolCallById(id) == CHOOSE block \in RequestedCalls : block.id = id

\* Every tool result the loop has produced: appended turns and the pending list.
ProducedResults ==
    Range(tool_results)
    \cup UNION {Range(messages[k + 1].content) :
                    k \in {a \in AssistantTurns : a < Len(messages)}}

Dispatched(id) == \E j \in DOMAIN dispatch_log : dispatch_log[j].id = id

\* The tool calls whose branch of the loop has been executed.
ProcessedCalls ==
    UNION {Range(ToolUses(messages[k].content)) :
                k \in {a \in AssistantTurns : a < Len(messages)}}
    \cup (IF pc = "EXECUTING_TOOLS"
          THEN Range(ToolUses(SubSeq(response.content, 1, blk - 1)))
          ELSE {})

\* C1: every tool-result turn appended to the conversation holds exactly one result
\* per tool call of the assistant turn before it, in the same order and with the
\* call's id, whatever the names of the requested tools.
C1_OneResultPerCall ==
    \A k \in AssistantTurns :
        k < Len(messages) =>
            LET requested == ToolUses(messages[k].content)
                appended == messages[k + 1].content IN
            /\ Len(appended) = Len(requested)
            /\ \A j \in DOMAIN requested : appended[j].tool_use_id = requested[j].id

\* Steps the run can still take, counted from above: it falls with every step.
Rank ==
    LET width == call_budget + 3 IN
    IF pc = "PLANNING"
    THEN 1 + (max_iterations - i) * width
    ELSE IF pc = "EXECUTING_TOOLS"
         THEN 2 + (max_iterations - i - 1) * width + (Len(response.content) + 1 - blk)
         ELSE 0

\* C2: whatever the model answers, a run makes at most max_iterations + 1 model
\* calls and terminates: every step of the run lowers a natural-number rank.
C2_BoundedModelCalls ==
    /\ [](calls <= max_iterations + 1 /\ Rank >= 0)
    /\ [][Rank' < Rank]_vars

C2_Witness ==
    /\ pc = "EXHAUSTED"
    /\ max_iterations >= 2
    /\ calls = max_iterations + 1
    /\ ntool_calls >= 1

\* C3: retrieve on an identifier that is not in the registry returns (it does not
\* raise) exactly one result, of kind error, that carries the identifier.
C3_UnknownSourceSentinel ==
    \A j \in DOMAIN dispatch_log :
        LET call == dispatch_log[j] IN
        ~Registered(call.source) =>
            /\ ~call.returned.raised
            /\ Len(call.returned.value) = 1
            /\ call.returned.value[1].source = "error"
            /\ call.returned.value[1].text = "Unknown source: " \o call.source

C3_Witness ==
    \E j \in DOMAIN dispatch_log : ~Registered(dispatch_log[j].source)

\* C4: a search_knowledge call that names a source absent from the registry does
\* not abort the run: the loop holds a tool result for that call and goes on.
C4_UnknownSourceRecovered ==
    \A j \in DOMAIN dispatch_log :
        LET call == dispatch_log[j] IN
        ~Registered(call.source) =>
            /\ pc # "RAISED"
            /\ \E r \in ProducedResults : r.tool_use_id = call.id

CatalogNames == {TOOLS[j].name : j \in DOMAIN TOOLS}

\* C5: a requested tool whose name is not in the catalog gets an error tool result
\* with content "unsupported tool", and the run goes on.
C5_UnsupportedToolReported ==
    \A call \in ProcessedCalls :
        call.name \notin CatalogNames =>
            /\ pc # "RAISED"
            /\ \E r \in ProducedResults :
                /\ r.tool_use_id = call.id
                /\ r.content = "unsupported tool"

SchemaOf(name) == CHOOSE tool \in Range(TOOLS) : tool.name = name

\* The arguments hold every required field and no field the schema does not declare.
SchemaValid(call) ==
    /\ SchemaOf(call.name).required \subseteq DOMAIN call.input
    /\ DOMAIN call.input \subseteq SchemaOf(call.name).properties

\* C6: a tool call whose arguments violate its declared schema is never dispatched,
\* does not abort the run, and gets a tool result once its branch has run.
C6_SchemaEnforced ==
    \A call \in RequestedCalls :
        (call.name \in CatalogNames /\ ~SchemaValid(call)) =>
            /\ ~Dispatched(call.id)
            /\ ~(pc = "RAISED" /\ CurrentBlock = call)
            /\ (call \in ProcessedCalls =>
                    \E r \in ProducedResults : r.tool_use_id = call.id)

RECURSIVE AnswerText(_)
AnswerText(content) ==
    IF content = <<>>
    THEN ""
    ELSE (IF Head(content).type = "text" THEN Head(content).text ELSE "")
         \o AnswerText(Tail(content))

\* C8: when the first k decisions of a run (k < max_iterations) were tool requests
\* and decision k+1 is a final answer, that step ends the run in DONE, in iteration
\* k+1, after exactly k+1 model calls and k tool-result turns, appends nothing and
\* returns the text of that answer.
C8_DoneAtIterationKPlusOne ==
    [][(/\ pc = "PLANNING"
        /\ i < max_iterations
        /\ Cardinality(AssistantTurns) = i
        /\ calls' = calls + 1
        /\ response'.stop_reason = "end_turn") =>
            /\ pc' = "DONE"
            /\ i' = i
            /\ calls' = i + 1
            /\ Len(messages) = 1 + 2 * i
            /\ messages' = messages
            /\ result' = AnswerText(response'.content)]_vars

\* One search of pricing_db, then the answer: DONE at iteration 2.
C8_Witness ==
    /\ pc = "DONE"
    /\ i = 1
    /\ calls = 2
    /\ Cardinality(AssistantTurns) = 1
    /\ Len(dispatch_log) = 1
    /\ dispatch_log[1].source = "pricing_db"
    /\ result = "ab"

AllowedSources(specialist) == Range(SPECIALIST_AGENTS[specialist].sources)

\* C9: during a specialist's delegated run every call of retrieve names a source in
\* that specialist's allowed sources, whatever source the model wrote.
C9_DispatchWithinAllowedSources ==
    orch_pc = "IN_DELEGATE" =>
        \A j \in DOMAIN dispatch_log :
            dispatch_log[j].source \in AllowedSources(plan[sq].specialist)

KnownSpecialist(specialist) == specialist \in DOMAIN SPECIALIST_AGENTS

\* C10: a plan entry with an unknown specialist identifier is never passed to
\* delegate and does not stop the orchestrator; when the orchestrator has returned,
\* every entry with a known specialist has been delegated.
C10_UnknownSpecialistDropped ==
    /\ \A j \in DOMAIN delegate_log : KnownSpecialist(delegate_log[j].specialist)
    /\ ~(orch_pc = "RAISED" /\ sq \in DOMAIN plan /\ ~KnownSpecialist(plan[sq].specialist))
    /\ orch_pc = "RETURNED" =>
            \A j \in DOMAIN plan :
                KnownSpecialist(plan[j].specialist) => plan[j] \in Range(delegate_log)

\* The specialist answers in the user turn of the synthesis call: every line after
\* the "Original question" line.
SynthesizedAnswers == Tail(synthesis_input)

\* C11: the synthesis call receives exactly one answer per planned sub-question,
\* also when the plan gives several sub-questions to one specialist.
C11_OneAnswerPerSubQuestion ==
    orch_pc = "RETURNED" => Len(SynthesizedAnswers) = Len(plan)

\* C12: the synthesis call is made only when every entry of the plan has been
\* delegated and every delegated run has ended (no run is in progress), and a
\* delegate call returns only from a run that is DONE or EXHAUSTED.
C12_SynthesisAfterAllDelegates ==
    [][/\ (orch_pc' = "RETURNED") =>
            /\ orch_pc = "DELEGATING"
            /\ pc = "IDLE"
            /\ Len(delegate_log) = Len(plan)
            /\ sq = Len(plan) + 1
       /\ (orch_pc = "IN_DELEGATE" /\ orch_pc' = "DELEGATING") =>
            /\ pc \in {"DONE", "EXHAUSTED"}
            /\ sq' = sq + 1]_vars

C12_Witness ==
    /\ orch_pc = "RETURNED"
    /\ Len(plan) = 2
    /\ Len(delegate_log) = 2

\* C14: for every plan the orchestrator ends by returning the synthesis: whenever
\* it has not returned, a step of it or of its current delegate is still possible.
C14_OrchestratorReturns ==
    orch_pc = "RETURNED" \/ ENABLED OrchNext

\* What the retrieve calls logged in `log` returned, in call order.
RECURSIVE OwnEvidence(_)
OwnEvidence(log) ==
    IF log = <<>>
    THEN <<>>
    ELSE (IF Head(log).returned.raised THEN <<>> ELSE Head(log).returned.value)
         \o OwnEvidence(Tail(log))

\* C15: a delegated run starts from a conversation that holds only its own
\* sub-question, an empty evidence pool and no tool results; while it runs, its
\* conversation holds that sub-question followed only by assistant turns of its own
\* model calls, its tool-result turns and the final-answer instruction, every tool
\* result answers a call of this run, and the evidence pool is exactly what this
\* run's own retrieve calls returned.
C15_DelegateIsolation ==
    /\ [](orch_pc = "IN_DELEGATE" =>
            /\ messages[1] = [role |-> "user", content |-> Str(plan[sq].question)]
            /\ \A k \in 2..Len(messages) :
                  \/ messages[k].role = "assistant"
                  \/ messages[k].content = Str(FORCE_PROMPT)
                  \/ \A b \in Range(messages[k].content) : b.type = "tool_result"
            /\ Cardinality(AssistantTurns) <= calls
            /\ \A r \in ProducedResults : \E c \in RequestedCalls : c.id = r.tool_use_id
            /\ retrieved_context = OwnEvidence(dispatch_log))
    /\ [][(orch_pc = "DELEGATING" /\ orch_pc' = "IN_DELEGATE") =>
            /\ messages' = <<[role |-> "user", content |-> Str(plan[sq].question)]>>
            /\ retrieved_context' = <<>>
            /\ tool_results' = <<>>]_vars

\* The second delegated run of a plan holds evidence, after the first has returned.
C15_Witness ==
    /\ orch_pc = "IN_DELEGATE"
    /\ sq = 2
    /\ specialist_answers # <<>>
    /\ retrieved_context # <<>>
    /\ Len(messages) = 3

\* The registered sources whose backend fails when queried.
BackendFails(source) ==
    /\ Registered(source)
    /\ KNOWLEDGE_SOURCES[source].collection \in Unavailable

\* C16: a search_knowledge call that meets a backend failure gets an error-kind
\* result from the dispatcher, that result is reported as the call's tool result,
\* and the run is not aborted.
C16_BackendFailureSurfaced ==
    \A j \in DOMAIN dispatch_log :
        LET call == dispatch_log[j] IN
        BackendFails(call.source) =>
            /\ ~call.returned.raised
            /\ \A r \in Range(call.returned.value) : r.source = "error"
            /\ \E r \in ProducedResults : r.tool_use_id = call.id
            /\ pc # "RAISED"

\* The identifiers of a registry's entries.
RegisteredIds(reg) == {reg[j].name : j \in DOMAIN reg}

\* C17: registering a source whose identifier is already registered replaces that
\* entry by the new source (last write wins), keeps every other entry and the
\* number of entries describe_all produces; no identifier is ever listed twice;
\* and registering a source a second time changes nothing.
C17_RegisterReplaces ==
    /\ \A j, k \in DOMAIN registry : registry[j].name = registry[k].name => j = k
    /\ \A source \in RegisterInputs :
          LET once == register(registry, source) IN
          /\ source.name \in RegisteredIds(registry) =>
                /\ Len(describe_all(once)) = Len(describe_all(registry))
                /\ \A j \in DOMAIN registry :
                      once[j] = (IF registry[j].name = source.name
                                 THEN source ELSE registry[j])
          /\ \E j \in DOMAIN once : once[j] = source
          /\ register(once, source) = once
          /\ describe_all(register(once, source)) = describe_all(once)

\* pricing_db has been registered again with other metadata, and the registry still
\* has its five start-up entries.
C17_Witness ==
    /\ Len(registry) = Len(SOURCE_KEYS)
    /\ \E j \in DOMAIN registry :
          /\ registry[j].name = "pricing_db"
          /\ registry[j].freshness = "real-time"
          /\ registry[j].collection = None

\* The registered sources with no backend handle ("collection": None).
NoBackend(source) ==
    /\ Registered(source)
    /\ KNOWLEDGE_SOURCES[source].collection = None

\* C18: retrieve on a registered source with no backend handle returns what the
\* live search returns for the query (at least one result), and every result
\* carries the freshness label "real-time"; this holds for the function on every
\* such source and for every such call the loop has made.
C18_LiveSearchForNoBackend ==
    /\ \A source \in DOMAIN KNOWLEDGE_SOURCES :
          NoBackend(source) => retrieve(source, "q") = web_search("q")
    /\ \A j \in DOMAIN dispatch_log :
          LET call == dispatch_log[j] IN
          NoBackend(call.source) =>
              /\ call.returned = web_search(call.query)
              /\ ~call.returned.raised
              /\ call.returned.value # <<>>
              /\ \A r \in Range(call.returned.value) : r.freshness = "real-time"

C18_Witness ==
    \E j \in DOMAIN dispatch_log :
        /\ NoBackend(dispatch_log[j].source)
        /\ Len(dispatch_log[j].returned.value) = 1

\* The registered sources that have a backend handle.
HasBackend(source) ==
    /\ Registered(source)
    /\ KNOWLEDGE_SOURCES[source].collection # None

\* C19: every retrieve call on a registered source with a backend that returned
\* has at most N_RESULTS results, each tagged with the queried source's identifier
\* and that source's freshness label.
C19_CappedAndTagged ==
    \A j \in DOMAIN dispatch_log :
        LET call == dispatch_log[j] IN
        (HasBackend(call.source) /\ ~call.returned.raised) =>
            /\ Len(call.returned.value) <= N_RESULTS
            /\ \A r \in Range(call.returned.value) :
                  /\ r.source = call.source
                  /\ r.freshness = KNOWLEDGE_SOURCES[call.source].freshness

\* A search of the store that holds more than N_RESULTS documents returned
\* exactly N_RESULTS results.
C19_Witness ==
    \E j \in DOMAIN dispatch_log :
        /\ dispatch_log[j].source = "hr_db"
        /\ ~dispatch_log[j].returned.raised
        /\ Len(dispatch_log[j].returned.value) = N_RESULTS
        /\ Len(Documents["org_and_hr"]) > N_RESULTS

\* The step is a retrieve call that returned the empty list.
EmptySearchStep ==
    /\ Len(dispatch_log') = Len(dispatch_log) + 1
    /\ ~dispatch_log'[Len(dispatch_log')].returned.raised
    /\ Len(dispatch_log'[Len(dispatch_log')].returned.value) = 0

\* C20: a search_knowledge call whose retrieval returns the empty list is not an
\* error: the step appends one tool result for the call that says no results were
\* found, leaves the evidence pool unchanged and goes on to the next block.
C20_EmptySearchIsValid ==
    [][EmptySearchStep =>
          /\ tool_results' =
                Append(tool_results,
                       ToolResult(dispatch_log'[Len(dispatch_log')].id,
                                  "No results found for this query."))
          /\ retrieved_context' = retrieved_context
          /\ pc' = "EXECUTING_TOOLS"
          /\ blk' = blk + 1]_vars

\* The result of an empty search has been appended to the conversation and the
\* loop is back at its next decision.
C20_Witness ==
    /\ pc = "PLANNING"
    /\ retrieved_context = <<>>
    /\ \E j \in DOMAIN dispatch_log :
          /\ ~dispatch_log[j].returned.raised
          /\ Len(dispatch_log[j].returned.value) = 0
          /\ \E k \in DOMAIN messages :
                /\ messages[k].role = "user"
                /\ ToolResult(dispatch_log[j].id, "No results found for this query.")
                       \in Range(messages[k].content)

\* C21: a decision call that returns a final answer appends nothing to the
\* conversation, the evidence pool or the tool results, dispatches nothing, ends
\* the run in DONE and returns the answer's text.
C21_FinalAnswerAppendsNothing ==
    [][(/\ i < max_iterations
        /\ calls' = calls + 1
        /\ response'.stop_reason = "end_turn") =>
            /\ messages' = messages
            /\ retrieved_context' = retrieved_context
            /\ tool_results' = tool_results
            /\ dispatch_log' = dispatch_log
            /\ pc' = "DONE"
            /\ result' = AnswerText(response'.content)]_vars

\* A final answer at the second decision, after a response that was neither an
\* answer nor a tool request.
C21_Witness ==
    /\ pc = "DONE"
    /\ i = 1
    /\ calls = 2
    /\ Len(messages) = 1
    /\ result = "a"

\* C22: a run starts in PLANNING and ends in DONE or EXHAUSTED: whenever it is in
\* neither, it can take a step.
C22_EndsDoneOrExhausted ==
    /\ pc \in {"PLANNING", "EXECUTING_TOOLS", "DONE", "EXHAUSTED"}
    /\ (pc \in {"DONE", "EXHAUSTED"} \/ ENABLED Next)

RECURSIVE TotalReturned(_)
TotalReturned(log) ==
    IF log = <<>>
    THEN 0
    ELSE (IF Head(log).returned.raised THEN 0 ELSE Len(Head(log).returned.value))
         + TotalReturned(Tail(log))

\* C24: the evidence pool only grows at its end; a search_knowledge call that
\* received results appends all of them, in order; the pool holds as many entries
\* as all searches so far returned, repeats included.
C24_PoolAppendOnly ==
    /\ [](Len(retrieved_context) = TotalReturned(dispatch_log))
    /\ [][/\ Len(retrieved_context') >= Len(retrieved_context)
          /\ SubSeq(retrieved_context', 1, Len(retrieved_context)) = retrieved_context
          /\ (/\ Len(dispatch_log') = Len(dispatch_log) + 1
              /\ ~dispatch_log'[Len(dispatch_log')].returned.raised) =>
                retrieved_context' =
                    retrieved_context \o dispatch_log'[Len(dispatch_log')].returned.value
         ]_vars

\* The same store searched twice: the pool holds its document twice.
C24_Witness ==
    /\ Len(dispatch_log) = 2
    /\ dispatch_log[1].source = "pricing_db"
    /\ dispatch_log[2].source = "pricing_db"
    /\ Len(retrieved_context) = 2
    /\ retrieved_context[1] = retrieved_context[2]

\* C30: a decision call whose response is neither a final answer nor a tool
\* request leaves the conversation, the evidence pool and the tool results as they
\* were and ends its iteration: the loop counter advances with the number of model
\* calls and stays within max_iterations.
C30_OtherStopUsesIteration ==
    [][(/\ calls' = calls + 1
        /\ response'.stop_reason \notin {"end_turn", "tool_use"}) =>
            /\ messages' = messages
            /\ retrieved_context' = retrieved_context
            /\ tool_results' = tool_results
            /\ pc' = "PLANNING"
            /\ i' = i + 1
            /\ calls' = i'
            /\ i' <= max_iterations]_vars

\* Both iterations of a run with max_iterations = 2 got such a response; the forced
\* call was the third and last.
C30_Witness ==
    /\ pc = "EXHAUSTED"
    /\ max_iterations = 2
    /\ calls = 3
    /\ Len(messages) = 2

\* The tools the loop is to acknowledge without doing anything.
AcknowledgedTools == {"evaluate_sufficiency", "validate_answer"}

\* C25: the step that processes an evaluate_sufficiency or validate_answer call
\* dispatches no retrieval, leaves the evidence pool unchanged and appends one tool
\* result for the call whose count is the number of results in the pool at that
\* point.
C25_AcknowledgedWithoutEffect ==
    [][(/\ InToolLoop
        /\ IsToolUse(CurrentBlock)
        /\ CurrentBlock.name \in AcknowledgedTools
        /\ blk' = blk + 1) =>
            /\ dispatch_log' = dispatch_log
            /\ retrieved_context' = retrieved_context
            /\ tool_results' =
                   Append(tool_results,
                          ToolResult(CurrentBlock.id,
                                     acknowledgement(Len(retrieved_context))))]_vars

\* The identifiers a result in the evidence pool may carry: the registry's, the
\* live search among them.
PoolSources == DOMAIN KNOWLEDGE_SOURCES \cup {"web_search"}

\* C26: every entry of the evidence pool carries a source identifier of the
\* registry (or the live search); the sentinel of an unknown-source query is not in
\* the pool.
C26_PoolSourcesRegistered ==
    \A j \in DOMAIN retrieved_context :
        /\ retrieved_context[j].source \in PoolSources
        /\ retrieved_context[j].source # "error"

IsSearchTool(tool) == tool.name = "search_knowledge"

IsOtherTool(tool) == tool.name # "search_knowledge"

\* C27: the catalog delegate_to_specialist builds for a specialist holds exactly
\* one search_knowledge tool, equal to the shared one but for its source enum,
\* which is the specialist's sources, and the other tools of the shared catalog
\* unchanged and in order; a delegated run is given this catalog and offers it at
\* its decision calls.
C27_SpecialistCatalog ==
    /\ \A name \in DOMAIN SPECIALIST_AGENTS :
          LET config == SPECIALIST_AGENTS[name]
              built == specialist_tools(config)
              search == SelectSeq(built, IsSearchTool) IN
          /\ Len(search) = 1
          /\ search[1].source_enum = config.sources
          /\ [search[1] EXCEPT !.source_enum = TOOLS[1].source_enum] = TOOLS[1]
          /\ SelectSeq(built, IsOtherTool) = SelectSeq(TOOLS, IsOtherTool)
    /\ orch_pc = "IN_DELEGATE" =>
          /\ tools = specialist_tools(SPECIALIST_AGENTS[plan[sq].specialist])
          /\ (calls > 0 /\ pc # "EXHAUSTED") => last_tools = tools

\* The policy specialist's first decision call was offered search_knowledge with
\* policy_db as its only source.
C27_Witness ==
    /\ orch_pc = "IN_DELEGATE"
    /\ plan[sq].specialist = "policy_specialist"
    /\ calls = 1
    /\ Len(last_tools) = Len(TOOLS)
    /\ last_tools[Len(last_tools)].name = "search_knowledge"
    /\ last_tools[Len(last_tools)].source_enum = <<"policy_db">>

\* C28: when the orchestrator has returned it has made exactly one planning call
\* and one synthesis call, in that order and both without tools, and the synthesis
\* input holds the original question followed by the answer of every delegate call,
\* each tagged with its specialist.
C28_OnePlanningOneSynthesis ==
    orch_pc = "RETURNED" =>
        /\ orch_calls = <<[kind |-> "planning", tools |-> NO_TOOLS],
                          [kind |-> "synthesis", tools |-> NO_TOOLS]>>
        /\ synthesis_input = SynthesisContent("question", specialist_answers)
        /\ Len(specialist_answers) = Len(delegate_log)
        /\ \A j \in DOMAIN specialist_answers :
              specialist_answers[j].name = delegate_log[j].specialist

\* The example orchestrator flow: each sub-question's specialist and the source the
\* flow shows it searching.
EXAMPLE_FLOW ==
    <<[specialist |-> "pricing_specialist", searches |-> "pricing_db"],
      [specialist |-> "pricing_specialist", searches |-> "web_search"],
      [specialist |-> "product_specialist", searches |-> "hr_db"]>>

\* C29: every specialist's sources are identifiers the registry holds, and every
\* source a specialist is shown searching is one of its sources.
C29_SpecialistSourcesConsistent ==
    /\ \A name \in DOMAIN SPECIALIST_AGENTS :
          AllowedSources(name) \subseteq RegisteredIds(registry)
    /\ \A j \in DOMAIN EXAMPLE_FLOW :
          EXAMPLE_FLOW[j].searches \in AllowedSources(EXAMPLE_FLOW[j].specialist)

\* ------------------------------------------------------------ the RAG demo
\* The interval whose last callback shows the RAG answer in this step.
EndingInterval(t) ==
    /\ BagIn(t, intervals)
    /\ ~StepsRemain(t.step + 1)
    /\ intervals' = clearInterval(intervals, t)

\* C31: the RAG answer panel becomes visible for the selected question only
\* through an animation that was started by a click on "Now ask with RAG
\* enabled" made for that same question; an animation started for another
\* question never shows the RAG answer of the question selected now.
C31_RAGAnswerOnlyForClickedQuestion ==
    [][(~showRAG /\ showRAG') =>
          \E t \in Closures : EndingInterval(t) /\ t.q = selectedQ']_vars

\* C32: while a pipeline animation runs, pipelineStep changes only by rising by
\* exactly one, from 1 up to 5, and never decreases, whatever the interleaving
\* of timer callbacks and clicks; and at most one animation timer runs at any
\* time.
C32_OneTimerStepByStep ==
    /\ [](BagCardinality(intervals) <= 1)
    /\ [][(animatingPipeline /\ animatingPipeline' /\ pipelineStep' # pipelineStep) =>
             (pipelineStep' = pipelineStep + 1 /\ pipelineStep' \in 1..5)]_vars

\* C33: whenever the RAG answer is shown (showRAG), no pipeline animation is
\* shown (animatingPipeline is false).
C33_RAGAnswerNotWhileAnimating == showRAG => ~animatingPipeline

\* An animation has ended and shows the RAG answer.
C33_Witness == showRAG /\ ragTyping /\ ~animatingPipeline /\ pipelineStep = 5

\* C34: after a click on "Now ask with RAG enabled", as long as the interval's
\* callbacks keep firing, the animation eventually ends: animatingPipeline is
\* false and showRAG is true with the RAG answer being typed (ragTyping).
C34_AnimationEnds ==
    (intervals # EmptyBag) ~> (~animatingPipeline /\ showRAG /\ ragTyping)

\* The click has been made and the animation is on its first step.
C34_Witness ==
    /\ animatingPipeline /\ ~showRAG /\ pipelineStep = 1
    /\ intervals = SetToBag({[step |-> 1, q |-> selectedQ]})

\* A step of handleAskQuestion: the only step that starts a timeout.
AskStep == stale_timeouts' = stale_timeouts + 1

\* C35: selecting a question makes it the selected question and in the same
\* step resets showStale, showRAG, staleTyping, ragTyping, showReveal and
\* animatingPipeline to false and pipelineStep to 0; the stale answer becomes
\* visible only when a callback of the delayed timer fires.
C35_SelectResetsThenStaleByTimer ==
    /\ [][AskStep =>
             /\ selectedQ' \in QuestionIds
             /\ ~showStale' /\ ~showRAG' /\ ~staleTyping' /\ ~ragTyping'
             /\ ~showReveal' /\ ~animatingPipeline'
             /\ pipelineStep' = 0]_vars
    /\ [][(~showStale /\ showStale') => stale_timeouts' = stale_timeouts - 1]_vars

\* A question has been selected and the callback of its timeout is pending:
\* everything is reset and the stale answer is not shown yet.
C35_Witness ==
    /\ selectedQ # null /\ stale_timeouts = 1
    /\ ~showStale /\ ~showRAG /\ ~showReveal /\ pipelineStep = 0

\* C36: while the pipeline view is showing, pipelineStep changes only by a
\* click on a step of that view; and a change of view leaves the demo's state
\* (the selected question, the flags and pipelineStep) unchanged.
C36_PipelineViewStepsOnlyByClick ==
    /\ [][(view = "pipeline" /\ pipelineStep' # pipelineStep) =>
             \E id \in 1..5 : StepClick(id)]_vars
    /\ [][view' # view => UNCHANGED demo_vars]_vars

\* C37: whenever the reveal is shown (showReveal), the RAG answer is shown
\* (showRAG) and a question is selected.
C37_RevealOnlyWithRAGAnswer == showReveal => (showRAG /\ selectedQ # null)

\* The reveal button has been clicked under a typed RAG answer.
C37_Witness == showReveal /\ showRAG /\ ~ragTyping /\ selectedQ # null

\* What a TypeWriter shows is a prefix of its text, as long as idx.
ShowsPrefix(w) == w.displayed = slice(w.text, w.idx) /\ w.idx <= Len(w.text)

\* From w to v the TypeWriter stays mounted on the same text and shows
\* something else.
Typed(w, v) == w.mounted /\ v.mounted /\ v.text = w.text /\ v.displayed # w.displayed

\* The TypeWriter w may call onComplete now: it is mounted on `text`, its
\* timer runs and it shows the whole text.
MayComplete(w, text) == w.mounted /\ w.timer /\ w.text = text /\ w.displayed = text

\* C38: what a TypeWriter displays is always a prefix of its text and grows
\* by exactly one character per tick; onComplete (which ends staleTyping or
\* ragTyping) is called only by a mounted TypeWriter whose timer runs and
\* which displays the whole of the current text, and that call clears the
\* timer, so it is made once per text; a TypeWriter that is not mounted has no
\* timer, so nothing is called after an unmount or for a replaced text.
C38_TypeWriter ==
    /\ [](/\ ShowsPrefix(staleWriter) /\ ShowsPrefix(ragWriter)
          /\ (~staleWriter.mounted => ~staleWriter.timer)
          /\ (~ragWriter.mounted => ~ragWriter.timer))
    /\ [][/\ Typed(staleWriter, staleWriter') =>
                staleWriter'.displayed = slice(staleWriter.text, Len(staleWriter.displayed) + 1)
          /\ Typed(ragWriter, ragWriter') =>
                ragWriter'.displayed = slice(ragWriter.text, Len(ragWriter.displayed) + 1)
          /\ (staleTyping /\ ~staleTyping' /\ showStale') =>
                /\ MayComplete(staleWriter, QUESTIONS[selectedQ].staleAnswer.text)
                /\ ~staleWriter'.timer
          /\ (ragTyping /\ ~ragTyping' /\ showRAG') =>
                /\ MayComplete(ragWriter, QUESTIONS[selectedQ].ragAnswer.text)
                /\ ~ragWriter'.timer]_vars

\* The stale answer's TypeWriter has completed and the RAG answer's shows its
\* whole text, one tick before its onComplete.
C38_Witness ==
    /\ showStale /\ ~staleTyping /\ ~staleWriter.mounted
    /\ ragWriter.mounted /\ ragWriter.timer
    /\ ragWriter.displayed = QUESTIONS[selectedQ].ragAnswer.text

\* C39: pipelineStep always lies within 0..5, so whenever the detail panel of
\* the PipelineVisualizer is shown (activeStep > 0) the index activeStep - 1
\* names an existing step of RAG_PIPELINE_STEPS, the one whose id is activeStep.
C39_PipelineStepInRange ==
    /\ pipelineStep \in 0..5
    /\ pipelineStep > 0 =>
          /\ (pipelineStep - 1) \in 0..(Len(RAG_PIPELINE_STEPS) - 1)
          /\ RAG_PIPELINE_STEPS[(pipelineStep - 1) + 1].id = pipelineStep

\* The animation of the demo view shows the detail panel of the last step.
C39_Witness == view = "demo" /\ animatingPipeline /\ pipelineStep = 5

====
